---- MODULE Spec2Model ----
(***************************************************************************)
(* Bollinger-band crossing alert bot (src/bb_cross_bot.py).                *)
(*                                                                         *)
(* One run of the program is a process: module-level configuration, then   *)
(* main(): db_init, and process_symbol for every ticker in list order.     *)
(* process_symbol is cut at its two external effects: the steps are        *)
(*   process_symbol  fetch .. already_sent          (lines 133-192)        *)
(*   send_discord    the webhook POST               (lines 194, 108-117)   *)
(*   mark_sent       the ledger insert              (lines 195, 81-84)     *)
(* The ledger (table alerts of .state/bb_alerts.sqlite3) and the Discord   *)
(* channel are the only state that outlives a run.                         *)
(*                                                                         *)
(* Prices are integers; the band comparisons of detect_cross are decided   *)
(* exactly (see beyond), where the program uses float64.  Printed output   *)
(* is kept only as the outcome of the last process_symbol call (out).      *)
(*                                                                         *)
(* Spec, SpecOverlap, SpecFair and SpecZones follow whole runs over a      *)
(* small catalogue of series, with one window and one multiplier.          *)
(* SpecCross applies compute_bb and detect_cross to every series, window   *)
(* and multiplier of bounded sets; SpecBars follows one call of            *)
(* process_symbol over the same sets, block by block:                      *)
(*   process_bands     fetch, bands, early returns  (lines 134-148)        *)
(*   process_backfill  the backfill scan            (lines 148-159)        *)
(*   process_live      live check, duplicate check  (lines 161-183)        *)
(***************************************************************************)
EXTENDS Integers, Sequences, FiniteSets, Bags, TLC

\* ---------------------------------------------------------------- bounds
\* Number of runs (process starts) a behaviour may hold.
MaxRuns == 2

\* Longest close series, and highest close, of the series drawn for the
\* band computation.
MaxBars == 4
MaxClose == 3

\* ------------------------------------------------------- configuration
\* BB_LENGTH and BB_MULT are read from the environment (defaults 107 and
\* 1.7); the model fixes a window of two bars and the multiplier 1/2, with
\* which a close leaves the band of its own window whenever it moves.
BB_LENGTH == 2
BB_MULT_NUM == 1
BB_MULT_DEN == 2

\* Where the band computation itself is followed, the window, the
\* multiplier (a fraction num/den; float() takes any sign) and
\* BACKFILL_LOOKBACK are drawn from these values.
Lengths == {2, 3}
Multipliers == {[num |-> -2, den |-> 1], [num |-> 1, den |-> 2],
                [num |-> 1, den |-> 1], [num |-> 2, den |-> 1]}
Lookbacks == {0, 1, 3}

Symbols == {"AAPL", "MSFT"}

\* Values of TICKERS after the split of line 50.
TickerLists == {<< >>, <<"AAPL">>, <<"AAPL", "MSFT">>, <<"AAPL", "AAPL">>}

\* Values of the environment variable DISCORD_WEBHOOK.
Webhooks == {"", " ", "https://hook"}

\* str.strip() on the values above.
strip(s) == IF s = " " THEN "" ELSE s

\* Mutant: the strip of line 44 forgotten.
webhook_missing_unstripped(env) == env = ""

\* Line 45: `if not WEBHOOK` after the strip of line 44.
webhook_missing(env) == strip(env) = ""

\* HTTP status codes the webhook may answer with; it has taken the message
\* when it answers 200 or 204.
StatusCodes == {200, 204, 404, 429}
Accepted == {200, 204}

\* Line 114: `r.status_code in (200, 204)`.
status_ok(code) == code \in {200, 204}

\* Mutant: mark_sent called whatever send_discord returned.
after_send_always(ok) == "mark"

\* Lines 194-195: `if send_discord(content): mark_sent(...)`.
after_send(ok) == IF ok THEN "mark" ELSE "loop"

\* ---------------------------------------------------------- timestamps
\* Time is counted in bars.  A DatetimeIndex is a sequence of wall-clock
\* readings with the zone (tz) they are read in: tz.aware is False for a
\* naive index (tz is None), and tz.off is the zone's offset from UTC.
UTC == [aware |-> TRUE, off |-> 0]
Naive == [aware |-> FALSE, off |-> 0]
Zones == {Naive, UTC, [aware |-> TRUE, off |-> -1], [aware |-> TRUE, off |-> 2]}

\* Line 124: tz_localize("UTC") reads the naive wall clock as UTC.
tz_localize(index, tz) == [tz |-> tz, index |-> index]

\* Line 126: tz_convert("UTC") keeps the instants and changes the readings.
tz_convert(from, index, tz) ==
    [tz |-> tz, index |-> [k \in 1..Len(index) |-> index[k] - from.off + tz.off]]

\* Line 180: Timestamp.isoformat() prints the wall-clock reading followed
\* by the zone's offset ("+00:00" for UTC), and by nothing when naive.
isoformat(wall, tz) == <<wall, tz.aware, tz.off>>

\* ------------------------------------------------------------- ledger
\* The table alerts is a bag of rows <<symbol, bar_ts, signal>>.

\* Mutant: the table is created anew at every start.
db_init_fresh(rows) == EmptyBag

\* Lines 62-73: CREATE TABLE IF NOT EXISTS keeps the rows of an existing
\* table.
db_init(rows) == rows

\* Mutant: the query never finds a row.
already_sent_never(rows, row) == FALSE

\* Lines 75-79: SELECT 1 ... WHERE symbol=? AND bar_ts=? AND signal=?
already_sent(rows, row) == BagIn(row, rows)

\* Mutant: a plain INSERT into a table without the primary key.
insert_plain(rows, row) == rows (+) SetToBag({row})

\* Lines 81-84 with the PRIMARY KEY of line 70: INSERT OR IGNORE.
insert_or_ignore(rows, row) ==
    IF BagIn(row, rows) THEN rows ELSE rows (+) SetToBag({row})

\* Mutant: the insert stays in the table although the commit raised.
half_written(rows, row) == rows (+) SetToBag({row})

\* Lines 82-84: `with conn:` rolls the transaction back when the insert or
\* the commit raises.
rolled_back(rows, row) == rows

\* ---------------------------------------------------------------- bands
RECURSIVE window_sum(_, _, _)
\* Sum of close[a..b].
window_sum(close, a, b) ==
    IF a > b THEN 0 ELSE close[b] + window_sum(close, a, b - 1)

RECURSIVE window_sumsq(_, _, _)
\* Sum of the squares of close[a..b].
window_sumsq(close, a, b) ==
    IF a > b THEN 0 ELSE close[b] * close[b] + window_sumsq(close, a, b - 1)

\* Not-a-number: the band value of a bar inside the warm-up window.
NaN == [def |-> FALSE, n |-> 0, s |-> 0, v |-> 0, mn |-> 0, md |-> 1]

\* Mutant: the window of bar i ends at the bar before it, so the bands of a
\* bar do not see its own close.
compute_bb_lagged(close, length, mnum, mden) ==
    [i \in 1..Len(close) |->
        IF i <= length THEN NaN
        ELSE LET s == window_sum(close, i - length, i - 1)
                 q == window_sumsq(close, i - length, i - 1)
             IN [def |-> TRUE, n |-> length, s |-> s,
                 v |-> length * q - s * s, mn |-> mnum, md |-> mden]]

\* Mutant: rolling(length, min_periods=1): a bar inside the warm-up window
\* gets the bands of the bars there are.
compute_bb_partial(close, length, mnum, mden) ==
    [i \in 1..Len(close) |->
        LET a == IF i < length THEN 1 ELSE i - length + 1
            s == window_sum(close, a, i)
            q == window_sumsq(close, a, i)
            n == i - a + 1
        IN [def |-> TRUE, n |-> n, s |-> s,
            v |-> n * q - s * s, mn |-> mnum, md |-> mden]]

\* Lines 87-92.  rolling(length, min_periods=length): bar i has a value
\* from i = length on.  A band value is kept as the exact numbers it is
\* made of: over the window, s is the sum, so basis = s / n, and
\* v = n * sumsq - s * s, so stdev (ddof=0) = sqrt(v) / n;
\* upper = basis + (mn/md) * stdev and lower = basis - (mn/md) * stdev.
compute_bb(close, length, mnum, mden) ==
    [i \in 1..Len(close) |->
        IF i < length THEN NaN
        ELSE LET s == window_sum(close, i - length + 1, i)
                 q == window_sumsq(close, i - length + 1, i)
             IN [def |-> TRUE, n |-> length, s |-> s,
                 v |-> length * q - s * s, mn |-> mnum, md |-> mden]]

\* pd.notna
notna(band) == band.def

\* d > (mn/md) * sqrt(v) with both sides scaled by md > 0, decided without
\* the root.  BB_MULT is any float the environment gives, so mn may be
\* negative: then the right side is negative or zero.
beyond(d, mn, v) ==
    IF mn >= 0 THEN d > 0 /\ d * d > mn * mn * v
    ELSE d > 0 \/ d * d < mn * mn * v

\* c > upper:  md * (n*c - s) > mn * sqrt(v).
gt_upper(c, band) ==
    band.def /\ beyond(band.md * (band.n * c - band.s), band.mn, band.v)

\* c < lower:  md * (s - n*c) > mn * sqrt(v).
lt_lower(c, band) ==
    band.def /\ beyond(band.md * (band.s - band.n * c), band.mn, band.v)

\* c < upper and c > lower, the same way.
lt_upper(c, band) ==
    band.def /\ beyond(band.md * (band.s - band.n * c), -band.mn, band.v)
gt_lower(c, band) ==
    band.def /\ beyond(band.md * (band.n * c - band.s), -band.mn, band.v)

\* c <= upper and c >= lower; a comparison with NaN is False.
le_upper(c, band) == band.def /\ ~gt_upper(c, band)
ge_lower(c, band) == band.def /\ ~lt_lower(c, band)

NoSignal == "None"

\* Mutant: the test of the previous bar left out, so that every bar beyond
\* its band gives a signal.
detect_cross_level(prev_close, prev_upper, prev_lower, cur_close, cur_upper, cur_lower) ==
    LET cross_above == notna(prev_upper) /\ notna(cur_upper)
                       /\ gt_upper(cur_close, cur_upper)
        cross_below == notna(prev_lower) /\ notna(cur_lower)
                       /\ lt_lower(cur_close, cur_lower)
    IN IF cross_above THEN "CROSS_ABOVE"
       ELSE IF cross_below THEN "CROSS_BELOW"
       ELSE NoSignal

\* Mutant: the current close compared with >= and <=, so that a close on
\* the band counts as beyond it.
detect_cross_on_band(prev_close, prev_upper, prev_lower, cur_close, cur_upper, cur_lower) ==
    LET cross_above == notna(prev_upper) /\ notna(cur_upper)
                       /\ le_upper(prev_close, prev_upper)
                       /\ ~lt_upper(cur_close, cur_upper)
        cross_below == notna(prev_lower) /\ notna(cur_lower)
                       /\ ge_lower(prev_close, prev_lower)
                       /\ ~gt_lower(cur_close, cur_lower)
    IN IF cross_above THEN "CROSS_ABOVE"
       ELSE IF cross_below THEN "CROSS_BELOW"
       ELSE NoSignal

\* Lines 94-101.
detect_cross(prev_close, prev_upper, prev_lower, cur_close, cur_upper, cur_lower) ==
    LET cross_above == notna(prev_upper) /\ notna(cur_upper)
                       /\ le_upper(prev_close, prev_upper)
                       /\ gt_upper(cur_close, cur_upper)
        cross_below == notna(prev_lower) /\ notna(cur_lower)
                       /\ ge_lower(prev_close, prev_lower)
                       /\ lt_lower(cur_close, cur_lower)
    IN IF cross_above THEN "CROSS_ABOVE"
       ELSE IF cross_below THEN "CROSS_BELOW"
       ELSE NoSignal

\* ----------------------------------------------------------- data source
\* Close series the data source may answer with: none, too short for one
\* pair of banded bars, flat, a rise through the upper band on bar 3, and
\* the same series one bar later, the close still above the band.
Histories == {<< >>, <<1, 1>>, <<1, 1, 1>>, <<1, 1, 2>>, <<1, 1, 2, 3>>}

\* What yf.download may return: bar k of the series closes at instant k and
\* is stamped in the zone the source answers in (a naive index reads as
\* UTC); the column "Close" may be missing.
download(zone, close, hasClose) ==
    [tz |-> zone, index |-> [k \in 1..Len(close) |-> k + zone.off],
     close |-> close, hasClose |-> hasClose]

Downloads ==
    {download(z, c, TRUE) : z \in Zones, c \in Histories}
    \cup {download(UTC, <<1>>, FALSE)}

EmptyFrame == [tz |-> Naive, index |-> << >>, close |-> << >>]

\* Mutant: the index is left in the zone the source answered in.
fetch_unconverted(raw) ==
    IF Len(raw.close) = 0 \/ ~raw.hasClose THEN EmptyFrame
    ELSE [tz |-> raw.tz, index |-> raw.index, close |-> raw.close]

\* Lines 119-127.
fetch(raw) ==
    IF Len(raw.close) = 0 \/ ~raw.hasClose THEN EmptyFrame
    ELSE LET idx == IF ~raw.tz.aware THEN tz_localize(raw.index, UTC)
                    ELSE tz_convert(raw.tz, raw.index, UTC)
         IN [tz |-> idx.tz, index |-> idx.index, close |-> raw.close]

\* Lines 139-141: the rows of df with their bands, warm-up rows dropped.
banded(df, length, mnum, mden) ==
    LET bb == compute_bb(df.close, length, mnum, mden)
        rows == [k \in 1..Len(df.close) |->
                    [ts |-> df.index[k], Close |-> df.close[k], band |-> bb[k]]]
    IN SelectSeq(rows, LAMBDA row : notna(row.band))

\* Lines 162-169: the live check on the last two rows, with loose mode.
live_signal(rows, loose) ==
    LET prev == rows[Len(rows) - 1]
        cur == rows[Len(rows)]
        sig == detect_cross(prev.Close, prev.band, prev.band,
                            cur.Close, cur.band, cur.band)
    IN IF sig = NoSignal /\ loose
       THEN IF gt_upper(cur.Close, cur.band) THEN "OUTSIDE_ABOVE"
            ELSE IF lt_lower(cur.Close, cur.band) THEN "OUTSIDE_BELOW"
            ELSE NoSignal
       ELSE sig

NoRow == <<"", <<0, TRUE, 0>>, NoSignal>>

\* Mutant: the key built on prev_ts, the bar before the last.
live_check_prev_ts(symbol, raw, loose) ==
    LET df == fetch(raw)
        rows == banded(df, BB_LENGTH, BB_MULT_NUM, BB_MULT_DEN)
    IN IF Len(df.close) = 0 THEN [out |-> "no_data", row |-> NoRow]
       ELSE IF Len(rows) < 2 THEN [out |-> "insufficient", row |-> NoRow]
       ELSE LET sig == live_signal(rows, loose)
            IN IF sig = NoSignal THEN [out |-> "no_signal", row |-> NoRow]
               ELSE [out |-> "signal",
                     row |-> <<symbol, isoformat(rows[Len(rows) - 1].ts, df.tz), sig>>]

\* Lines 134-180 of process_symbol as a function of the downloaded data:
\* the outcome, and the ledger key <<symbol, bar_ts, signal>> when a signal
\* was found.
live_check(symbol, raw, loose) ==
    LET df == fetch(raw)
        rows == banded(df, BB_LENGTH, BB_MULT_NUM, BB_MULT_DEN)
    IN IF Len(df.close) = 0 THEN [out |-> "no_data", row |-> NoRow]
       ELSE IF Len(rows) < 2 THEN [out |-> "insufficient", row |-> NoRow]
       ELSE LET sig == live_signal(rows, loose)
            IN IF sig = NoSignal THEN [out |-> "no_signal", row |-> NoRow]
               ELSE [out |-> "signal",
                     row |-> <<symbol, isoformat(rows[Len(rows)].ts, df.tz), sig>>]

\* What one call of process_symbol can compute, over every answer of the
\* data source, with the zone the source answered in and the instant of
\* its last bar.
fetched(symbol, loose) ==
    {[res |-> live_check(symbol, raw, loose), zone |-> raw.tz,
      inst |-> Len(raw.close)] : raw \in Downloads}

\* Evaluated once.
FetchedTable == [symbol \in Symbols, loose \in BOOLEAN |-> fetched(symbol, loose)]

\* Close series followed bar by bar: every series of at most MaxBars closes
\* in 1..MaxClose, and four named ones: a flat run ended by one spike (two
\* sizes), a rise that pauses on a flat bar, and a rise that slows down and
\* speeds up again.
Scenarios == {<<10, 10, 10, 10, 14>>, <<10, 10, 10, 10, 20>>,
              <<1, 1, 2, 2, 3>>, <<1, 1, 1, 4, 5, 6>>}

Series == UNION {[1..n -> 1..MaxClose] : n \in 0..MaxBars} \cup Scenarios

\* Line 149: df.tail(n), the last n rows, all of them when there are fewer.
tail(rows, n) ==
    SubSeq(rows, IF n >= Len(rows) THEN 1 ELSE Len(rows) - n + 1, Len(rows))

RECURSIVE backfill_scan_first(_, _)
\* Mutant: the first crossing found is kept, later ones do not replace it.
backfill_scan_first(sub, k) ==
    IF k < 2 THEN [sig |-> NoSignal, last_sig |-> NoSignal, last_ts |-> 0]
    ELSE LET before == backfill_scan_first(sub, k - 1)
             s == detect_cross(sub[k - 1].Close, sub[k - 1].band, sub[k - 1].band,
                               sub[k].Close, sub[k].band, sub[k].band)
             keep == s = NoSignal \/ before.last_sig # NoSignal
         IN [sig |-> s,
             last_sig |-> IF keep THEN before.last_sig ELSE s,
             last_ts |-> IF keep THEN before.last_ts ELSE sub[k].ts]

RECURSIVE backfill_scan(_, _)
\* Lines 150-155: the locals sig, last_sig and last_ts after the loop has
\* run over the rows 2..k of sub (i = 1..k-1 in the code).
backfill_scan(sub, k) ==
    IF k < 2 THEN [sig |-> NoSignal, last_sig |-> NoSignal, last_ts |-> 0]
    ELSE LET before == backfill_scan(sub, k - 1)
             s == detect_cross(sub[k - 1].Close, sub[k - 1].band, sub[k - 1].band,
                               sub[k].Close, sub[k].band, sub[k].band)
         IN [sig |-> s,
             last_sig |-> IF s # NoSignal THEN s ELSE before.last_sig,
             last_ts |-> IF s # NoSignal THEN sub[k].ts ELSE before.last_ts]

\* ---------------------------------------------------------------- state
VARIABLES
    ledger,     \* table alerts: bag of rows <<symbol, bar_ts, signal>>
    sink,       \* messages the webhook accepted: bag of rows
    pc,         \* per process: where the run stands
    cfg,        \* per process: the configuration read at start
    i,          \* per process: position in TICKERS (1-based)
    key,        \* per process: <<symbol, cur_ts_iso, sig_key>> of the call
    out,        \* per process: outcome of the last process_symbol call
    status,     \* per process: exit status
    conn,       \* per process: the run holds a connection to the ledger
    attempted,  \* per process: symbols process_symbol was called with
    runs,       \* number of runs started
    dbFault,    \* a ledger write has failed
    failed,     \* rows whose latest delivery attempt failed
    retry,      \* per process: the delivery under way follows a failed one
    src,        \* per process: zone the data source answered the call in
                \* and instant of its last bar, when a signal was found
    recZone,    \* zone of the answer behind the latest row written
    bars,       \* close series the data source answers with, where the
                \* band computation is followed
    par,        \* BB_LENGTH, BB_MULT and BACKFILL_LOOKBACK of that run
    bb,         \* bands of every bar of the series (line 140)
    df,         \* rows with their bands, warm-up rows dropped (line 141)
    sig,        \* the local sig of process_symbol
    last,       \* what the backfill scan reports
    pairs       \* detect_cross of bars k and k+1, for the pairs applied so far

series_vars == <<bars, par, bb, df, sig, last, pairs>>

vars == <<ledger, sink, pc, cfg, i, key, out, status, conn, attempted, runs,
          dbFault, failed, retry, src, recZone, bars, par, bb, df, sig, last,
          pairs>>

Procs == {1, 2}

NoSrc == [zone |-> UTC, inst |-> 0]

NoCfg == [webhook |-> "", tickers |-> << >>, dry |-> FALSE, loose |-> FALSE]

NoPar == [length |-> BB_LENGTH, mnum |-> BB_MULT_NUM, mden |-> BB_MULT_DEN,
          backfill |-> 0]

NoLast == [sig |-> NoSignal, ts |-> 0, bars |-> 0]

\* Nothing computed yet.
NoSeries ==
    /\ bb = << >>
    /\ df = << >>
    /\ sig = NoSignal
    /\ last = NoLast
    /\ pairs = << >>

\* No call has been made and nothing sent or recorded.
Quiet ==
    /\ ledger = EmptyBag
    /\ sink = EmptyBag
    /\ i = [r \in Procs |-> 1]
    /\ key = [r \in Procs |-> NoRow]
    /\ out = [r \in Procs |-> "none"]
    /\ status = [r \in Procs |-> 0]
    /\ attempted = [r \in Procs |-> << >>]
    /\ dbFault = FALSE
    /\ failed = {}
    /\ retry = [r \in Procs |-> FALSE]
    /\ src = [r \in Procs |-> NoSrc]
    /\ recZone = UTC

Init ==
    /\ Quiet
    /\ pc = [r \in Procs |-> "idle"]
    /\ cfg = [r \in Procs |-> NoCfg]
    /\ conn = [r \in Procs |-> FALSE]
    /\ runs = 0
    /\ bars = << >>
    /\ par = NoPar
    /\ NoSeries

\* Lines 44-59: a process starts and reads its environment.  An empty
\* DISCORD_WEBHOOK ends it with sys.exit(2) before anything else is set up.
configure(r, restart, peers) ==
    /\ \/ pc[r] = "idle"
       \/ restart /\ pc[r] \in {"done", "exit"} /\ runs < MaxRuns
    /\ \A q \in peers \ {r} : pc[q] \in {"idle", "done", "exit"}
    /\ runs' = runs + 1
    /\ i' = [i EXCEPT ![r] = 1]
    /\ key' = [key EXCEPT ![r] = NoRow]
    /\ out' = [out EXCEPT ![r] = "none"]
    /\ conn' = [conn EXCEPT ![r] = FALSE]
    /\ attempted' = [attempted EXCEPT ![r] = << >>]
    /\ retry' = [retry EXCEPT ![r] = FALSE]
    /\ \E env \in Webhooks :
        IF webhook_missing(env)
        THEN /\ pc' = [pc EXCEPT ![r] = "exit"]
             /\ status' = [status EXCEPT ![r] = 2]
             /\ cfg' = [cfg EXCEPT ![r] = [NoCfg EXCEPT !.webhook = strip(env)]]
        ELSE /\ pc' = [pc EXCEPT ![r] = "main"]
             /\ status' = [status EXCEPT ![r] = 0]
             /\ \E t \in TickerLists, d \in BOOLEAN, l \in BOOLEAN :
                    cfg' = [cfg EXCEPT ![r] = [webhook |-> strip(env), tickers |-> t,
                                               dry |-> d, loose |-> l]]
    /\ UNCHANGED <<ledger, sink, dbFault, failed, src, recZone>>
    /\ UNCHANGED series_vars

\* Lines 197-200: main() opens the ledger.
main(r) ==
    /\ pc[r] = "main"
    /\ ledger' = db_init(ledger)
    /\ conn' = [conn EXCEPT ![r] = TRUE]
    /\ pc' = [pc EXCEPT ![r] = "loop"]
    /\ UNCHANGED <<sink, cfg, i, key, out, status, attempted, runs, dbFault,
                   failed, retry, src, recZone>>
    /\ UNCHANGED series_vars

\* Line 201: the call returned; the loop goes on with the next ticker.
after_return(k) == k + 1

\* Mutant: no try/except around the call, the exception ends the loop.
after_error_abort(k, n) == n + 1

\* Lines 202-206: the call raised; the exception is caught and printed and
\* the loop goes on with the next ticker.
after_error(k, n) == k + 1

\* Lines 133-192: fetch, bands, live check and the duplicate check.
process_symbol(r, track) ==
    /\ pc[r] = "loop"
    /\ i[r] <= Len(cfg[r].tickers)
    /\ LET symbol == cfg[r].tickers[i[r]]
           n == Len(cfg[r].tickers)
       IN /\ attempted' = [attempted EXCEPT ![r] = Append(@, symbol)]
          /\ retry' = [retry EXCEPT ![r] = FALSE]
          /\ \/ \* yf.download (or anything after it) raises
                /\ out' = [out EXCEPT ![r] = "fetch_error"]
                /\ key' = [key EXCEPT ![r] = NoRow]
                /\ i' = [i EXCEPT ![r] = after_error(@, n)]
                /\ UNCHANGED <<pc, src>>
             \/ \E f \in FetchedTable[symbol, cfg[r].loose] :
                /\ src' = [src EXCEPT ![r] =
                              IF track /\ f.res.out = "signal"
                              THEN [zone |-> f.zone, inst |-> f.inst] ELSE NoSrc]
                /\ key' = [key EXCEPT ![r] = f.res.row]
                /\ IF f.res.out # "signal"
                   THEN /\ out' = [out EXCEPT ![r] = f.res.out]
                        /\ i' = [i EXCEPT ![r] = after_return(@)]
                        /\ UNCHANGED pc
                   ELSE IF already_sent(ledger, f.res.row)
                   THEN /\ out' = [out EXCEPT ![r] = "duplicate"]
                        /\ i' = [i EXCEPT ![r] = after_return(@)]
                        /\ UNCHANGED pc
                   ELSE /\ out' = [out EXCEPT ![r] = "signal"]
                        /\ pc' = [pc EXCEPT ![r] = "send"]
                        /\ UNCHANGED i
    /\ UNCHANGED <<ledger, sink, cfg, status, conn, runs, dbFault, failed, recZone>>
    /\ UNCHANGED series_vars

\* Lines 194 and 108-117: under DRY_RUN nothing is posted and True is
\* returned; otherwise the POST is answered with a status code, or raises.
send_discord(r) ==
    /\ pc[r] = "send"
    /\ LET n == Len(cfg[r].tickers)
       IN IF cfg[r].dry
          THEN /\ pc' = [pc EXCEPT ![r] = after_send(TRUE)]
               /\ out' = [out EXCEPT ![r] = "dry_run"]
               /\ failed' = failed \ {key[r]}
               /\ UNCHANGED <<sink, i, retry>>
          ELSE \/ \E code \in StatusCodes :
                  LET ok == status_ok(code)
                      next == after_send(ok)
                  IN /\ sink' = IF code \in Accepted
                                THEN sink (+) SetToBag({key[r]}) ELSE sink
                     /\ out' = [out EXCEPT ![r] =
                                  IF ok THEN "delivered" ELSE "send_failed"]
                     /\ retry' = [retry EXCEPT ![r] = ok /\ key[r] \in failed]
                     /\ failed' = IF ok THEN failed \ {key[r]}
                                  ELSE failed \cup {key[r]}
                     /\ pc' = [pc EXCEPT ![r] = next]
                     /\ i' = [i EXCEPT ![r] =
                                IF next = "loop" THEN after_return(@) ELSE @]
               \/ \* requests.post raises (timeout, connection error)
                  /\ out' = [out EXCEPT ![r] = "send_error"]
                  /\ failed' = failed \cup {key[r]}
                  /\ pc' = [pc EXCEPT ![r] = "loop"]
                  /\ i' = [i EXCEPT ![r] = after_error(@, n)]
                  /\ UNCHANGED <<sink, retry>>
    /\ UNCHANGED <<ledger, cfg, key, status, conn, attempted, runs, dbFault,
                   src, recZone>>
    /\ UNCHANGED series_vars

\* Lines 195 and 81-84: the insert commits, or raises and is rolled back.
mark_sent(r) ==
    /\ pc[r] = "mark"
    /\ pc' = [pc EXCEPT ![r] = "loop"]
    /\ LET n == Len(cfg[r].tickers)
       IN \/ /\ ledger' = insert_or_ignore(ledger, key[r])
             /\ out' = [out EXCEPT ![r] = "sent"]
             /\ i' = [i EXCEPT ![r] = after_return(@)]
             /\ recZone' = src[r].zone
             /\ UNCHANGED dbFault
          \/ /\ ledger' = rolled_back(ledger, key[r])
             /\ out' = [out EXCEPT ![r] = "mark_error"]
             /\ i' = [i EXCEPT ![r] = after_error(@, n)]
             /\ dbFault' = TRUE
             /\ UNCHANGED recZone
    /\ UNCHANGED <<sink, cfg, key, status, conn, attempted, runs, failed, retry, src>>
    /\ UNCHANGED series_vars

\* Line 201: the list is exhausted; main returns and the process ends.
main_done(r) ==
    /\ pc[r] = "loop"
    /\ i[r] > Len(cfg[r].tickers)
    /\ pc' = [pc EXCEPT ![r] = "done"]
    /\ conn' = [conn EXCEPT ![r] = FALSE]
    /\ UNCHANGED <<ledger, sink, cfg, i, key, out, status, attempted, runs,
                   dbFault, failed, retry, src, recZone>>
    /\ UNCHANGED series_vars

\* Runs that do not overlap: one process, started again when it has ended.
Next ==
    \E r \in {1} :
        \/ configure(r, TRUE, {1})
        \/ main(r)
        \/ process_symbol(r, FALSE)
        \/ send_discord(r)
        \/ mark_sent(r)
        \/ main_done(r)

Spec == Init /\ [][Next]_vars

\* Runs that may overlap: two processes on the same ledger and channel,
\* each started once, their steps interleaved freely.
NextOverlap ==
    \E r \in Procs :
        \/ configure(r, FALSE, {})
        \/ main(r)
        \/ process_symbol(r, FALSE)
        \/ send_discord(r)
        \/ mark_sent(r)
        \/ main_done(r)

SpecOverlap == Init /\ [][NextOverlap]_vars

\* Two runs of one process, one after the other; every step that can be
\* taken is taken in the end (the program is one sequential thread and its
\* blocking calls return or raise).
NextTwice ==
    \E r \in {1} :
        \/ configure(r, runs = 1, {1})
        \/ main(r)
        \/ process_symbol(r, FALSE)
        \/ send_discord(r)
        \/ mark_sent(r)
        \/ main_done(r)

SpecFair == Init /\ [][NextTwice]_vars /\ WF_vars(NextTwice)

\* Two runs of one process, one after the other, with the zone of every
\* answer of the data source kept.
NextZones ==
    \E r \in {1} :
        \/ configure(r, runs = 1, {1})
        \/ main(r)
        \/ process_symbol(r, TRUE)
        \/ send_discord(r)
        \/ mark_sent(r)
        \/ main_done(r)

SpecZones == Init /\ [][NextZones]_vars

\* ------------------------------------------- the two functions, applied
\* compute_bb and detect_cross applied to a series, a window and a
\* multiplier drawn from the sets above: first the bands of every bar, then
\* detect_cross on every pair of neighbouring bars in turn, warm-up bars
\* included.
InitCross ==
    /\ Quiet
    /\ pc = [r \in Procs |-> IF r = 1 THEN "apply" ELSE "idle"]
    /\ cfg = [r \in Procs |-> NoCfg]
    /\ conn = [r \in Procs |-> FALSE]
    /\ runs = 0
    /\ bars \in Series
    /\ \E length \in Lengths, mult \in Multipliers :
          par = [length |-> length, mnum |-> mult.num, mden |-> mult.den,
                 backfill |-> 0]
    /\ NoSeries

\* Lines 87-92 on the whole series.
apply_compute_bb ==
    /\ pc[1] = "apply"
    /\ bb' = compute_bb(bars, par.length, par.mnum, par.mden)
    /\ pc' = [pc EXCEPT ![1] = "scan"]
    /\ UNCHANGED <<ledger, sink, cfg, i, key, out, status, conn, attempted,
                   runs, dbFault, failed, retry, src, recZone, bars, par, df,
                   sig, last, pairs>>

\* Lines 94-101 on the next pair of neighbouring bars.
apply_detect_cross ==
    /\ pc[1] = "scan"
    /\ Len(pairs) + 1 < Len(bb)
    /\ LET k == Len(pairs) + 1
       IN pairs' = Append(pairs, detect_cross(bars[k], bb[k], bb[k],
                                              bars[k + 1], bb[k + 1], bb[k + 1]))
    /\ UNCHANGED <<ledger, sink, pc, cfg, i, key, out, status, conn, attempted,
                   runs, dbFault, failed, retry, src, recZone, bars, par, bb,
                   df, sig, last>>

NextCross == apply_compute_bb \/ apply_detect_cross

SpecCross == InitCross /\ [][NextCross]_vars

\* ------------------------------------------ one call, statement by statement
\* A run over one ticker whose ledger is open (main has called db_init), for
\* every series, window, multiplier, lookback and loose flag of the sets
\* above.  The data source answers with the series, stamped in UTC; the
\* call is followed block by block: bands, backfill scan, live check, then
\* send_discord and mark_sent as above.
InitBars ==
    /\ Quiet
    /\ pc = [r \in Procs |-> IF r = 1 THEN "loop" ELSE "idle"]
    /\ \E loose \in BOOLEAN :
          cfg = [r \in Procs |->
                    IF r = 1 THEN [webhook |-> "https://hook", tickers |-> <<"AAPL">>,
                                   dry |-> FALSE, loose |-> loose]
                    ELSE NoCfg]
    /\ conn = [r \in Procs |-> r = 1]
    /\ runs = 1
    /\ bars \in Series
    /\ \E length \in Lengths, mult \in Multipliers, lookback \in Lookbacks :
          par = [length |-> length, mnum |-> mult.num, mden |-> mult.den,
                 backfill |-> lookback]
    /\ NoSeries

\* Lines 134-148: fetch, the bands, the warm-up rows dropped, and the two
\* early returns.
process_bands(r) ==
    /\ pc[r] = "loop"
    /\ i[r] <= Len(cfg[r].tickers)
    /\ LET symbol == cfg[r].tickers[i[r]]
           frame == fetch(download(UTC, bars, TRUE))
       IN /\ attempted' = [attempted EXCEPT ![r] = Append(@, symbol)]
          /\ retry' = [retry EXCEPT ![r] = FALSE]
          /\ key' = [key EXCEPT ![r] = NoRow]
          /\ IF Len(frame.close) = 0
             THEN /\ out' = [out EXCEPT ![r] = "no_data"]
                  /\ i' = [i EXCEPT ![r] = after_return(@)]
                  /\ UNCHANGED <<pc, bb, df>>
             ELSE /\ bb' = compute_bb(frame.close, par.length, par.mnum, par.mden)
                  /\ df' = banded(frame, par.length, par.mnum, par.mden)
                  /\ IF Len(df') < 2
                     THEN /\ out' = [out EXCEPT ![r] = "insufficient"]
                          /\ i' = [i EXCEPT ![r] = after_return(@)]
                          /\ UNCHANGED pc
                     ELSE /\ out' = [out EXCEPT ![r] = "banded"]
                          /\ pc' = [pc EXCEPT ![r] =
                                      IF par.backfill > 0 THEN "backfill" ELSE "live"]
                          /\ UNCHANGED i
    /\ UNCHANGED <<ledger, sink, cfg, status, conn, runs, dbFault, failed, src,
                   recZone, bars, par, sig, last, pairs>>

\* Lines 148-159: the backfill scan over the tail of df, and what it logs.
process_backfill(r) ==
    /\ pc[r] = "backfill"
    /\ LET sub == tail(df, IF par.backfill > 2 THEN par.backfill ELSE 2)
           scan == backfill_scan(sub, Len(sub))
       IN /\ sig' = scan.sig
          /\ last' = [sig |-> scan.last_sig, ts |-> scan.last_ts, bars |-> Len(sub)]
    /\ pc' = [pc EXCEPT ![r] = "live"]
    /\ UNCHANGED <<ledger, sink, cfg, i, key, out, status, conn, attempted,
                   runs, dbFault, failed, retry, src, recZone, bars, par, bb,
                   df, pairs>>

\* Lines 161-183: the live check on the last two rows, the return without
\* a signal, the key and the duplicate check.
process_live(r) ==
    /\ pc[r] = "live"
    /\ LET symbol == cfg[r].tickers[i[r]]
           s == live_signal(df, cfg[r].loose)
           row == <<symbol, isoformat(df[Len(df)].ts, UTC), s>>
       IN /\ sig' = s
          /\ IF s = NoSignal
             THEN /\ out' = [out EXCEPT ![r] = "no_signal"]
                  /\ pc' = [pc EXCEPT ![r] = "loop"]
                  /\ i' = [i EXCEPT ![r] = after_return(@)]
                  /\ UNCHANGED key
             ELSE /\ key' = [key EXCEPT ![r] = row]
                  /\ IF already_sent(ledger, row)
                     THEN /\ out' = [out EXCEPT ![r] = "duplicate"]
                          /\ pc' = [pc EXCEPT ![r] = "loop"]
                          /\ i' = [i EXCEPT ![r] = after_return(@)]
                     ELSE /\ out' = [out EXCEPT ![r] = "signal"]
                          /\ pc' = [pc EXCEPT ![r] = "send"]
                          /\ UNCHANGED i
    /\ UNCHANGED <<ledger, sink, cfg, status, conn, attempted, runs, dbFault,
                   failed, retry, src, recZone, bars, par, bb, df, last, pairs>>

NextBars ==
    \E r \in {1} :
        \/ process_bands(r)
        \/ process_backfill(r)
        \/ process_live(r)
        \/ send_discord(r)
        \/ mark_sent(r)
        \/ main_done(r)

SpecBars == InitBars /\ [][NextBars]_vars

\* ================================================================ claims
Running == {"main", "loop", "send", "mark"}

\* The step is a call of process_symbol by r.
Called(r) == pc[r] = "loop" /\ attempted'[r] # attempted[r]

\* The step is send_discord of r returning True after a POST.
Delivered(r) == pc[r] = "send" /\ out'[r] = "delivered"

\* The step is send_discord of r returning False or raising.
SendFailed(r) == pc[r] = "send" /\ out'[r] \in {"send_failed", "send_error"}

\* The step is mark_sent of r returning.
Marked(r) == pc[r] = "mark" /\ out'[r] = "sent"

\* ---- C1
\* C1: over runs that do not overlap, as long as no ledger write has
\* failed, the webhook has accepted every (symbol, bar, signal) row at most
\* once.
C1_AtMostOnce ==
    ~dbFault => \A row \in BagToSet(sink) : CopiesIn(row, sink) <= 1

\* A second run found the row its predecessor delivered and recorded, and
\* suppressed it.
C1_Witness ==
    \E r \in Procs :
        /\ runs = 2 /\ ~dbFault
        /\ out[r] = "duplicate"
        /\ CopiesIn(key[r], sink) = 1

\* ---- C2
\* C2: every row of the ledger is a row the webhook has accepted (stated
\* for every configuration, DRY_RUN included).
C2_RecordedOnlyIfDelivered ==
    \A row \in BagToSet(ledger) : BagIn(row, sink)

\* ---- C3
\* C3: a row whose latest delivery attempt failed is not in the ledger; a
\* later call that finds the same row is not suppressed but goes on to
\* deliver it; and the row reaches the webhook in one step, with the
\* ledger untouched, and the ledger in a later step of its own.
C3_FailedNotRecorded ==
    \A row \in failed : ~already_sent(ledger, row)

C3_Step ==
    \A r \in Procs :
        /\ SendFailed(r) => /\ ledger' = ledger
                            /\ ~already_sent(ledger', key[r])
        /\ Called(r) /\ key'[r] \in failed =>
              pc'[r] = "send" /\ out'[r] = "signal"
        /\ Delivered(r) => /\ sink' = sink (+) SetToBag({key[r]})
                           /\ ledger' = ledger
                           /\ ~already_sent(ledger', key[r])
                           /\ pc'[r] = "mark"
        /\ Marked(r) /\ ~cfg[r].dry =>
              BagIn(key[r], sink) /\ already_sent(ledger', key[r])

C3_RetryAfterFailure == [] C3_FailedNotRecorded /\ [][C3_Step]_vars

\* The first call of a second run delivered and recorded a row whose
\* delivery had failed in the first run.
C3_Witness ==
    \E r \in Procs :
        /\ runs = 2 /\ Len(attempted[r]) = 1
        /\ out[r] = "sent" /\ retry[r] /\ ~cfg[r].dry
        /\ BagIn(key[r], sink) /\ already_sent(ledger, key[r])

\* ---- C8
\* C8: no step of any run, a start over an existing ledger included, takes
\* a row out of the ledger or changes its number of copies downwards.
C8_AppendOnly ==
    [][\A row \in BagToSet(ledger) :
          CopiesIn(row, ledger') >= CopiesIn(row, ledger)]_vars

\* A second run has opened the ledger the first one wrote to.
C8_Witness ==
    \E r \in Procs :
        /\ runs = 2 /\ pc[r] = "loop" /\ i[r] = 1 /\ conn[r]
        /\ ledger # EmptyBag

\* ---- C9
\* C9: the tickers are taken one at a time in list order: the calls made
\* so far are a prefix of the list, a run that has ended has called
\* process_symbol once for every position of the list, whatever was raised
\* on the way, a step that raises moves the loop to the next position, and
\* a run that has started its loop ends.
C9_InOrder ==
    \A r \in Procs :
        /\ pc[r] = "loop" =>
              attempted[r] = SubSeq(cfg[r].tickers, 1, i[r] - 1)
        /\ pc[r] \in {"send", "mark"} =>
              attempted[r] = SubSeq(cfg[r].tickers, 1, i[r])
        /\ pc[r] = "done" => attempted[r] = cfg[r].tickers

C9_NotStuck ==
    \A r \in Procs :
        pc[r] \in Running =>
            ENABLED (main(r) \/ process_symbol(r, FALSE) \/ send_discord(r)
                     \/ mark_sent(r) \/ main_done(r))

C9_ErrorStep ==
    \A r \in Procs :
        pc[r] \in Running
        /\ out'[r] \in {"fetch_error", "send_error", "mark_error"}
        /\ out'[r] # out[r]
        => pc'[r] = "loop" /\ i'[r] = i[r] + 1

C9_Ends == \A r \in {1} : pc[r] \in Running ~> pc[r] = "done"

C9_Containment ==
    [] (C9_InOrder /\ C9_NotStuck) /\ [][C9_ErrorStep]_vars /\ C9_Ends

\* In a first run over two tickers the ledger write for the first raised,
\* the second was then delivered and recorded, and the run ended.
C9_Witness ==
    \E r \in Procs :
        /\ runs = 1 /\ pc[r] = "done" /\ dbFault
        /\ attempted[r] = <<"AAPL", "MSFT">>
        /\ out[r] = "sent" /\ key[r][1] = "MSFT"

\* ---- C10
\* C10: a process whose DISCORD_WEBHOOK is empty has ended with status 2,
\* has opened no ledger connection and called process_symbol for nothing;
\* and the step that ends it leaves ledger and webhook as they were.
C10_Fatal ==
    \A r \in Procs :
        pc[r] # "idle" /\ webhook_missing(cfg[r].webhook) =>
            /\ pc[r] = "exit" /\ status[r] = 2
            /\ ~conn[r] /\ attempted[r] = << >>

C10_ExitStep ==
    \A r \in Procs :
        pc'[r] = "exit" /\ runs' # runs =>
            ledger' = ledger /\ sink' = sink /\ ~conn'[r]

C10_MissingWebhook == [] C10_Fatal /\ [][C10_ExitStep]_vars

\* A run without a webhook has ended over a ledger an earlier run wrote.
C10_Witness ==
    \E r \in Procs :
        pc[r] = "exit" /\ status[r] = 2 /\ runs = 2 /\ ledger # EmptyBag

\* ---- C19
\* The step is mark_sent of r raising.
MarkFailed(r) == pc[r] = "mark" /\ out'[r] = "mark_error"

\* Rows the webhook has accepted that are not in the ledger.
Unrecorded == {row \in BagToSet(sink) : ~BagIn(row, ledger)}

C19_Step ==
    \A r \in Procs :
        /\ MarkFailed(r) /\ ~cfg[r].dry =>
              /\ BagIn(key[r], sink)
              /\ ledger' = ledger /\ ~already_sent(ledger', key[r])
              /\ key[r] \in Unrecorded'
              /\ pc'[r] = "loop" /\ i'[r] = i[r] + 1
        /\ Called(r) /\ key'[r] \in Unrecorded =>
              /\ ~already_sent(ledger, key'[r])
              /\ pc'[r] = "send" /\ out'[r] = "signal"
        /\ Delivered(r) /\ key[r] \in Unrecorded =>
              CopiesIn(key[r], sink') = CopiesIn(key[r], sink) + 1

\* C19: over runs that do not overlap, a mark_sent that raises after a
\* delivery leaves the ledger as it was, without the row, and the loop goes
\* on with the next ticker; a later call that builds the key of a
\* delivered, unrecorded row is not suppressed and goes on to send it, and
\* its delivery gives the webhook the row once more.
C19_AtLeastOnce == [][C19_Step]_vars

\* The ledger write failed after the delivery of a row in a first run; the
\* second run delivered the row again and recorded it.
C19_Witness ==
    \E r \in Procs :
        /\ runs = 2 /\ dbFault /\ ~cfg[r].dry
        /\ out[r] = "sent"
        /\ CopiesIn(key[r], sink) = 2 /\ CopiesIn(key[r], ledger) = 1

\* ---- C4
\* C4: with two runs interleaved, the ledger never holds two copies of a
\* row, no step takes a row out of it, and a mark_sent that returns leaves
\* its row in it.
C4_OneCopy ==
    \A row \in BagToSet(ledger) : CopiesIn(row, ledger) = 1

C4_Step ==
    /\ \A row \in BagToSet(ledger) : BagIn(row, ledger')
    /\ \A r \in Procs : Marked(r) => BagIn(key[r], ledger')

C4_NoLostEntry == [] C4_OneCopy /\ [][C4_Step]_vars

\* One run has recorded a row while the other stands between delivering
\* and recording the same row.
C4_Witness ==
    /\ pc[1] = "mark" /\ out[2] = "sent" /\ key[1] = key[2]
    /\ BagIn(key[2], ledger)

\* ---- C5
\* C5: with two runs interleaved and no ledger write failing, the webhook
\* still accepts no row a second time.
C5_OverlapAtMostOnce ==
    \A row \in BagToSet(sink) : dbFault \/ CopiesIn(row, sink) = 1

\* ---- C6
\* C6: on every ledger reached and for every row in play, a second
\* INSERT OR IGNORE of the row changes nothing: the ledger after two
\* inserts is the ledger after one, with one copy of the row, and
\* already_sent holds after either.
C6_Idempotent ==
    \A row \in BagToSet(ledger) \cup {key[r] : r \in Procs} \cup failed :
        LET once == insert_or_ignore(ledger, row)
            twice == insert_or_ignore(once, row)
        IN /\ twice = once
           /\ CopiesIn(row, once) = 1 /\ CopiesIn(row, twice) = 1
           /\ already_sent(once, row) /\ already_sent(twice, row)

\* Both runs have called mark_sent with the same row, and it is there once.
C6_Witness ==
    /\ out[1] = "sent" /\ out[2] = "sent" /\ key[1] = key[2]
    /\ CopiesIn(key[1], ledger) = 1

\* ---- C7
\* C7: the key built for a bar is the UTC rendering of the bar's instant,
\* whatever zone the data source answered in; a row enters the ledger only
\* by a mark_sent of that very row; the row a mark_sent wrote is found by
\* already_sent, and a later call that builds the same key is suppressed.
C7_KeyIsInstant ==
    \A r \in Procs :
        out[r] \in {"signal", "duplicate", "delivered", "dry_run", "sent"} =>
            key[r][2] = isoformat(src[r].inst, UTC)

C7_Step ==
    /\ \A row \in BagToSet(ledger') :
          ~already_sent(ledger, row) => \E r \in Procs : Marked(r) /\ key[r] = row
    /\ \A r \in Procs :
          /\ Marked(r) => already_sent(ledger', key[r])
          /\ Called(r) /\ already_sent(ledger, key'[r]) => out'[r] = "duplicate"

C7_RoundTrip == [] C7_KeyIsInstant /\ [][C7_Step]_vars

\* The only row of the ledger was written from an answer in one zone, and
\* a later call built the same key from an answer in another zone.
C7_Witness ==
    \E r \in Procs :
        /\ out[r] = "duplicate" /\ BagCardinality(ledger) = 1
        /\ src[r].zone # recZone
        /\ src[r].zone # UTC /\ recZone # UTC

\* =============================================== claims on the two functions
\* Bar k of the series with the band compute_bb gave it.
Bar(k) == [Close |-> bars[k], band |-> bb[k]]

\* The pairs of neighbouring bars detect_cross has been applied to.
Applied == 1..Len(pairs)

\* ---- C11
\* C11: for every pair of neighbouring bars detect_cross was applied to:
\* when all bands of the pair are defined, the result is CROSS_ABOVE if and
\* only if prev.close <= prev.upper and cur.close > cur.upper, and
\* CROSS_BELOW if and only if prev.close >= prev.lower and
\* cur.close < cur.lower; when a band of the pair is undefined, the result
\* is no signal.
C11_CrossIff ==
    \A k \in Applied :
        LET prev == Bar(k)
            cur == Bar(k + 1)
        IN IF notna(prev.band) /\ notna(cur.band)
           THEN /\ pairs[k] = "CROSS_ABOVE" <=>
                      le_upper(prev.Close, prev.band) /\ gt_upper(cur.Close, cur.band)
                /\ pairs[k] = "CROSS_BELOW" <=>
                      ge_lower(prev.Close, prev.band) /\ lt_lower(cur.Close, cur.band)
           ELSE pairs[k] = NoSignal

\* ---- C12
\* lower <= upper:  upper - lower = 2 * (mn/md) * sqrt(v) / n is not negative.
lower_le_upper(band) == band.mn >= 0 \/ band.v = 0

\* C12: every bar compute_bb gave bands to has lower <= upper, and on no
\* pair of neighbouring banded bars do the condition of CROSS_ABOVE
\* (prev.close <= prev.upper and cur.close > cur.upper) and the condition
\* of CROSS_BELOW (prev.close >= prev.lower and cur.close < cur.lower) hold
\* together.
C12_NeverBoth ==
    /\ \A k \in 1..Len(bb) : notna(bb[k]) => lower_le_upper(bb[k])
    /\ \A k \in Applied :
          LET prev == Bar(k)
              cur == Bar(k + 1)
          IN ~ /\ le_upper(prev.Close, prev.band) /\ gt_upper(cur.Close, cur.band)
               /\ ge_lower(prev.Close, prev.band) /\ lt_lower(cur.Close, cur.band)

\* ---- C15
\* detect_cross has been applied to every pair of neighbouring bars.
ScanDone == pc[1] = "scan" /\ Len(pairs) + 1 = Len(bars)

\* The bars detect_cross answered CROSS_ABOVE on, and the banded bars whose
\* close is above their upper band.
Crosses == {k + 1 : k \in {j \in Applied : pairs[j] = "CROSS_ABOVE"}}
Above == {k \in 1..Len(bb) : gt_upper(bars[k], bb[k])}

\* The closes never fall; the first banded bar is not above its upper band
\* and a later one is.
Rising == \A k \in 1..(Len(bars) - 1) : bars[k] <= bars[k + 1]
Through ==
    /\ Len(bars) > par.length
    /\ Rising
    /\ le_upper(bars[par.length], bb[par.length])
    /\ Above # {}

\* The closes of the banded bars rise strictly.
Climbing == \A k \in par.length..(Len(bars) - 1) : bars[k] < bars[k + 1]

First(S) == CHOOSE k \in S : \A j \in S : k <= j

\* C15 as claimed: on a series that rises through its upper band (here
\* even strictly, under a positive multiplier), detect_cross over all
\* pairs answers CROSS_ABOVE on the first bar above its band and on no
\* other bar.
C15_ExactlyOnce ==
    ScanDone /\ Through /\ Climbing /\ par.mnum > 0 => Crosses = {First(Above)}

\* C15, amended: on a series that rises through its upper band,
\* detect_cross over all pairs answers CROSS_ABOVE on the first bar above
\* its band, on no bar before it, and on a later bar only when that bar is
\* above its band and the bar before it is not: never on two bars in a row.
C15_EdgeTriggered ==
    ScanDone /\ Through =>
        /\ First(Above) \in Crosses
        /\ \A k \in Crosses :
              /\ k >= First(Above)
              /\ k \in Above /\ k - 1 \notin Above
              /\ k - 1 \notin Crosses

\* A strictly rising series under a positive multiplier crossed its upper
\* band, fell back inside as the band widened, and crossed it again.
C15_Witness ==
    /\ ScanDone /\ Through /\ Climbing /\ par.mnum > 0
    /\ Cardinality(Crosses) = 2

\* ---- C17
\* Equal closes followed by one higher close.
Spike ==
    /\ Len(bars) >= 2
    /\ \A k \in 1..(Len(bars) - 1) : bars[k] = bars[1]
    /\ bars[Len(bars)] > bars[1]

\* C17: with L = 3 and M = 2, on equal closes followed by one higher
\* close, detect_cross does not answer CROSS_ABOVE on the last bar, and the
\* upper band of that bar, when it has one, is above its close.
C17_SpikeSuppressed ==
    ScanDone /\ Spike /\ par.length = 3 /\ par.mnum = 2 /\ par.mden = 1 =>
        /\ pairs[Len(pairs)] # "CROSS_ABOVE"
        /\ notna(bb[Len(bb)]) => lt_upper(bars[Len(bars)], bb[Len(bb)])

\* detect_cross has answered on the last pair of [10, 10, 10, 10, 20], both
\* bars of the pair with bands.
C17_Witness ==
    /\ ScanDone /\ par.length = 3 /\ par.mnum = 2 /\ par.mden = 1
    /\ bars = <<10, 10, 10, 10, 20>>
    /\ notna(bb[4]) /\ notna(bb[5])
    /\ pairs[4] = NoSignal

\* ================================================ claims on the call followed
\* The step is the live check of r (lines 161-183).
LiveChecked(r) == pc[r] = "live" /\ pc'[r] # "live"

\* ---- C13
\* C13: at the live check, with prev and cur the last two banded rows: a
\* strict cross is the signal as it is; without a strict cross and with
\* the loose flag set, the signal is OUTSIDE_ABOVE exactly when
\* cur.close > cur.upper and OUTSIDE_BELOW exactly when
\* cur.close < cur.lower, whatever prev is; with the flag unset, or with
\* lower <= cur.close <= upper, the signal is no OUTSIDE_* kind.
C13_LooseStep ==
    \A r \in {1} :
        LiveChecked(r) =>
            LET prev == df[Len(df) - 1]
                cur == df[Len(df)]
                strict == detect_cross(prev.Close, prev.band, prev.band,
                                       cur.Close, cur.band, cur.band)
                above == gt_upper(cur.Close, cur.band)
                below == lt_lower(cur.Close, cur.band)
            IN /\ strict # NoSignal => sig' = strict
               /\ strict = NoSignal /\ cfg[r].loose =>
                     /\ sig' = "OUTSIDE_ABOVE" <=> above
                     /\ sig' = "OUTSIDE_BELOW" <=> below
               /\ ~cfg[r].loose \/ (~above /\ ~below) =>
                     sig' \notin {"OUTSIDE_ABOVE", "OUTSIDE_BELOW"}

C13_LooseMode == [][C13_LooseStep]_vars

\* ---- C14
\* The series has at least one bar and all its closes are the same.
Flat == Len(bars) > 0 /\ \A k \in 1..Len(bars) : bars[k] = bars[1]

\* basis = c, upper = c and lower = c.
eq_basis(c, band) == band.def /\ band.s = band.n * c
eq_upper(c, band) == band.def /\ ~gt_upper(c, band) /\ ~lt_upper(c, band)
eq_lower(c, band) == band.def /\ ~lt_lower(c, band) /\ ~gt_lower(c, band)

\* C14: for a series whose closes are all the same c: every bar with bands
\* has basis = upper = lower = c; detect_cross gives no signal on any pair
\* of neighbouring banded rows and no row is outside its band; the backfill
\* scan and the live check, loose or not, find no signal; nothing is sent
\* and the ledger is left as it was.
C14_FlatSilent ==
    Flat =>
        /\ \A k \in 1..Len(bb) :
              notna(bb[k]) => /\ eq_basis(bars[1], bb[k])
                              /\ eq_upper(bars[1], bb[k])
                              /\ eq_lower(bars[1], bb[k])
        /\ \A k \in 1..Len(df) :
              /\ ~gt_upper(df[k].Close, df[k].band)
              /\ ~lt_lower(df[k].Close, df[k].band)
              /\ k > 1 => detect_cross(df[k - 1].Close, df[k - 1].band, df[k - 1].band,
                                       df[k].Close, df[k].band, df[k].band) = NoSignal
        /\ sig = NoSignal /\ last.sig = NoSignal
        /\ \A r \in {1} : pc[r] \notin {"send", "mark"} /\ key[r] = NoRow
        /\ sink = EmptyBag /\ ledger = EmptyBag

\* The call has returned from a flat series long enough for the backfill
\* scan and the live check to run, in loose mode.
C14_Witness ==
    /\ Flat /\ bars[1] > 1
    /\ pc[1] = "done" /\ out[1] = "no_signal" /\ cfg[1].loose
    /\ last.bars >= 2 /\ Len(df) > 2

\* ---- C16
\* process_symbol has been called on the series.
CalledOn(r) == attempted[r] # << >>

\* The bars compute_bb gave bands to.
Defined == {k \in 1..Len(bb) : notna(bb[k])}

\* Nothing was detected, sent or recorded.
Untouched(r) ==
    /\ pc[r] \in {"loop", "done"}
    /\ sig = NoSignal /\ last = NoLast /\ key[r] = NoRow
    /\ sink = EmptyBag /\ ledger = EmptyBag

\* C16 as claimed (here under a positive multiplier): on a series of fewer
\* than L+1 bars no bar has bands, and the call reports no or insufficient
\* data and returns with nothing detected, sent or recorded.
C16_NoBands ==
    \A r \in {1} :
        CalledOn(r) /\ Len(bars) < par.length + 1 /\ par.mnum > 0 =>
            /\ Defined = {}
            /\ out[r] \in {"no_data", "insufficient"}
            /\ Untouched(r)

\* C16, amended: on a series of fewer than L+1 bars, no bar has bands when
\* there are fewer than L bars and the last bar alone has bands when
\* there are exactly L; fewer than two rows are left, and the call reports
\* no data for the empty series and insufficient data otherwise, and
\* returns with nothing detected, sent or recorded.
C16_ShortSeries ==
    \A r \in {1} :
        CalledOn(r) /\ Len(bars) < par.length + 1 =>
            /\ Defined = IF Len(bars) = par.length THEN {par.length} ELSE {}
            /\ Len(df) = Cardinality(Defined) /\ Len(df) < 2
            /\ out[r] = IF Len(bars) = 0 THEN "no_data" ELSE "insufficient"
            /\ Untouched(r)

\* The call has returned from a series of exactly L bars, one of them with
\* bands.
C16_Witness ==
    /\ CalledOn(1) /\ pc[1] = "done"
    /\ Len(bars) = par.length /\ Len(df) = 1
    /\ out[1] = "insufficient"

\* ---- C18
\* The step is the backfill scan of r (lines 148-159).
Backfilled(r) == pc[r] = "backfill" /\ pc'[r] # "backfill"

\* detect_cross on the rows k-1 and k of df.
CrossAt(k) ==
    detect_cross(df[k - 1].Close, df[k - 1].band, df[k - 1].band,
                 df[k].Close, df[k].band, df[k].band)

\* The rows of the last n rows of df, the first of them left out, on which
\* detect_cross finds a crossing.
Hits(n) == {k \in (Len(df) - n + 2)..Len(df) : CrossAt(k) # NoSignal}

Last(S) == CHOOSE k \in S : \A j \in S : k >= j

\* The signal and key the live check finds on the series alone.
LiveOf(r) ==
    LET rows == banded(fetch(download(UTC, bars, TRUE)),
                       par.length, par.mnum, par.mden)
        s == live_signal(rows, cfg[r].loose)
    IN [sig |-> s,
        key |-> IF s = NoSignal THEN NoRow
                ELSE <<cfg[r].tickers[i[r]], isoformat(rows[Len(rows)].ts, UTC), s>>]

C18_Step ==
    \A r \in {1} :
        /\ Backfilled(r) =>
              LET n == IF par.backfill > Len(df) THEN Len(df)
                       ELSE IF par.backfill > 2 THEN par.backfill ELSE 2
              IN /\ par.backfill > 0
                 /\ last'.bars = n
                 /\ last'.sig \in {NoSignal, "CROSS_ABOVE", "CROSS_BELOW"}
                 /\ IF Hits(n) = {} THEN last'.sig = NoSignal
                    ELSE /\ last'.sig = CrossAt(Last(Hits(n)))
                         /\ last'.ts = df[Last(Hits(n))].ts
                 /\ ledger' = ledger /\ sink' = sink /\ df' = df
                 /\ key' = key /\ out' = out /\ i' = i /\ pc'[r] = "live"
        /\ LiveChecked(r) =>
              /\ sig' = LiveOf(r).sig
              /\ key'[r] = LiveOf(r).key
              /\ pc'[r] = IF sig' = NoSignal \/ already_sent(ledger, key'[r])
                          THEN "loop" ELSE "send"

\* C18: the backfill scan runs only with a lookback N > 0; it goes over
\* the last max(2, N) banded rows (all of them when there are fewer) and
\* reports the latest strict crossing among their pairs, or none; it
\* leaves the ledger, the webhook, the rows and the call's outcome as they
\* were; and the live check that follows finds the signal and the key the
\* series alone gives, whether the scan has run or not.
C18_BackfillReadOnly == [][C18_Step]_vars

\* The scan went over three rows holding a crossing up and then a crossing
\* down and reported the later one, and the live check's signal was then
\* delivered and recorded.
C18_Witness ==
    /\ pc[1] = "done" /\ out[1] = "sent"
    /\ par.backfill = 3 /\ last.bars = 3
    /\ CrossAt(Len(df) - 1) = "CROSS_ABOVE"
    /\ last.sig = "CROSS_BELOW" /\ last.ts = df[Len(df)].ts
    /\ BagIn(key[1], ledger)

\* ===================================================== claims on the key
\* ---- C20
\* The bar a row is keyed on is older than the last bar of the series the
\* call of r fetched.
Stale(row, r) == row[1] = key[r][1] /\ row[2][1] < src[r].inst

C20_Step ==
    /\ sink' # sink =>
          \E r \in Procs : /\ Delivered(r)
                            /\ sink' = sink (+) SetToBag({key[r]})
    /\ ledger' # ledger =>
          \E r \in Procs : /\ Marked(r)
                            /\ ledger' = ledger (+) SetToBag({key[r]})
    /\ \A r \in Procs :
          /\ pc'[r] = "send" /\ pc[r] # "send" => Called(r)
          /\ pc[r] = "send" => pc'[r] \in {"mark", "loop"}
          /\ pc[r] = "mark" => pc'[r] = "loop" /\ i'[r] = i[r] + 1
          /\ pc[r] \in {"send", "mark"} => key'[r] = key[r]
          /\ Delivered(r) \/ Marked(r) =>
                key[r][2] = isoformat(src[r].inst, UTC)
          /\ Delivered(r) =>
                \A row \in failed :
                    Stale(row, r) => CopiesIn(row, sink') = CopiesIn(row, sink)

\* C20: the webhook and the ledger change only by the one send_discord and
\* the one mark_sent a call of process_symbol goes through, each with the
\* key of that call; the key is on the last bar of the series the call
\* fetched; so a row whose delivery failed is not delivered by a call whose
\* series has a newer last bar.
C20_LastBarOnly == [][C20_Step]_vars

\* The delivery of a crossing on bar 3 failed in the first run; the second
\* run fetched a series with a bar 4, delivered and recorded a signal on
\* bar 4, and the crossing on bar 3 has never reached the webhook.
C20_Witness ==
    \E r \in Procs :
        /\ runs = 2 /\ out[r] = "sent" /\ src[r].inst = 4
        /\ \E row \in failed :
              /\ Stale(row, r) /\ row[3] = "CROSS_ABOVE"
              /\ ~BagIn(row, sink) /\ ~BagIn(row, ledger)

====
